---- MODULE Spec2Model ----
(***************************************************************************)
(* The argument binder of arglink_project: the two packages "arglink" and  *)
(* "argkit" analyse the signature of a decorated callable into a table of  *)
(* flag definitions, register the flags on an argparse parser and turn the *)
(* parsed values back into keyword arguments of the callable.  The older   *)
(* argkit.runtime registers the parameters of a class constructor while it *)
(* walks them (SpecRuntime).                                               *)
(*                                                                         *)
(* Text is a sequence of one-character strings, so that replace(), upper() *)
(* and string concatenation are computed and not assumed.                  *)
(***************************************************************************)
EXTENDS Integers, Sequences, FiniteSets, TLC

(* ------------------------------ bounds --------------------------------- *)
\* the longest signature explored
MaxParams == 3
\* the most argument groups one parser receives
MaxGroups == 1

(* ------------------------------- text ---------------------------------- *)
str_dashes == <<"-", "-">>
str_store_true_flag == <<"-", "s", "t", "o", "r", "e", "-", "t", "r", "u", "e">>
str_store_false_flag == <<"-", "s", "t", "o", "r", "e", "-", "f", "a", "l", "s", "e">>
str_store_true_key == <<"_", "s", "t", "o", "r", "e", "_", "t", "r", "u", "e">>
str_store_false_key == <<"_", "s", "t", "o", "r", "e", "_", "f", "a", "l", "s", "e">>
str_default_open == <<"(", "d", "e", "f", "a", "u", "l", "t", ":", " ">>
str_default_close == <<")", " ">>
repr_None == <<"N", "o", "n", "e">>
repr_True == <<"T", "r", "u", "e">>
repr_False == <<"F", "a", "l", "s", "e">>
repr_list == <<"[", "]">>

lower_letters ==
  <<"a", "b", "c", "d", "e", "f", "g", "h", "i", "j", "k", "l", "m",
    "n", "o", "p", "q", "r", "s", "t", "u", "v", "w", "x", "y", "z">>
upper_letters ==
  <<"A", "B", "C", "D", "E", "F", "G", "H", "I", "J", "K", "L", "M",
    "N", "O", "P", "Q", "R", "S", "T", "U", "V", "W", "X", "Y", "Z">>
digit_chars == <<"0", "1", "2", "3", "4", "5", "6", "7", "8", "9">>

\* str.replace(old, new) for one-character old and new
replace(s, old, new) == [i \in DOMAIN s |-> IF s[i] = old THEN new ELSE s[i]]

\* str.upper()
upper_map ==
  [c \in {lower_letters[i] : i \in DOMAIN lower_letters} |->
     upper_letters[CHOOSE i \in DOMAIN lower_letters : lower_letters[i] = c]]
upper_char(c) == IF c \in DOMAIN upper_map THEN upper_map[c] ELSE c
upper(s) == [i \in DOMAIN s |-> upper_char(s[i])]

\* str.startswith / the rest after a prefix
startswith(s, pre) == Len(s) >= Len(pre) /\ SubSeq(s, 1, Len(pre)) = pre
lstrip_prefix(s, pre) == IF startswith(s, pre) THEN SubSeq(s, Len(pre) + 1, Len(s)) ELSE s

\* decimal digits of a natural number
RECURSIVE digits(_)
digits(n) == IF n < 10 THEN <<digit_chars[n + 1]>> ELSE digits(n \div 10) \o <<digit_chars[(n % 10) + 1]>>

(* ------------------------------ values --------------------------------- *)
\* A Python value: its runtime type t, its number n (a float in tenths, a
\* bool as 0 or 1) and its text s.  Empty is inspect.Parameter.empty.
IntVal(k) == [t |-> "int", n |-> k, s |-> <<>>]
FloatVal(tenths) == [t |-> "float", n |-> tenths, s |-> <<>>]
BoolVal(b) == [t |-> "bool", n |-> IF b THEN 1 ELSE 0, s |-> <<>>]
StrVal(txt) == [t |-> "str", n |-> 0, s |-> txt]
NoneVal == [t |-> "NoneType", n |-> 0, s |-> <<>>]
ListVal == [t |-> "list", n |-> 0, s |-> <<>>]
Empty == [t |-> "empty", n |-> 0, s |-> <<>>]
\* a keyword that is not passed to add_argument
NotPassed == [t |-> "notpassed", n |-> 0, s |-> <<>>]

SupportedTypes == {"int", "float", "bool", "str"}
NumericTypes == {"int", "float", "bool"}

\* type(value)
type_of(v) == v.t

\* the number a numeric value denotes, in tenths
tenths_of(v) == IF v.t = "float" THEN v.n ELSE 10 * v.n

\* Python's ==: numbers compare across int, float and bool
py_eq(a, b) ==
  IF a.t \in NumericTypes /\ b.t \in NumericTypes
  THEN tenths_of(a) = tenths_of(b)
  ELSE a = b

\* repr(value)
repr(v) ==
  CASE v.t = "int" -> digits(v.n)
    [] v.t = "float" -> digits(v.n \div 10) \o <<".">> \o digits(v.n % 10)
    [] v.t = "bool" -> IF v.n = 1 THEN repr_True ELSE repr_False
    [] v.t = "str" -> <<"'">> \o v.s \o <<"'">>
    [] v.t = "NoneType" -> repr_None
    [] OTHER -> repr_list

\* type.__name__ as text
type_name(t) ==
  CASE t = "int" -> <<"i", "n", "t">>
    [] t = "float" -> <<"f", "l", "o", "a", "t">>
    [] t = "str" -> <<"s", "t", "r">>
    [] t = "bool" -> <<"b", "o", "o", "l">>
    [] OTHER -> <<"l", "i", "s", "t">>

(* --------------------------- re.fullmatch ------------------------------ *)
\* The patterns in use are built from literals, ".", ".*", "^" and "$".
RECURSIVE match_from(_, _, _, _)
match_from(p, i, s, j) ==
  IF i > Len(p) THEN j = Len(s) + 1
  ELSE IF p[i] = "^" THEN j = 1 /\ match_from(p, i + 1, s, j)
  ELSE IF p[i] = "$" THEN j = Len(s) + 1 /\ match_from(p, i + 1, s, j)
  ELSE IF p[i] = "." /\ i < Len(p) /\ p[i + 1] = "*"
       THEN \E k \in j..(Len(s) + 1) : match_from(p, i + 2, s, k)
  ELSE IF p[i] = "." THEN j <= Len(s) /\ match_from(p, i + 1, s, j + 1)
  ELSE j <= Len(s) /\ s[j] = p[i] /\ match_from(p, i + 1, s, j + 1)

fullmatch(p, s) == match_from(p, 1, s, 1)

(* ---------------------------- signatures ------------------------------ *)
name_self == <<"s", "e", "l", "f">>
name_skip == <<"t", "_">>
name_a_n == <<"a", "_", "n">>
name_b == <<"b">>
name_u == <<"u">>
name_i_d == <<"i", "_", "d">>
name_r == <<"r">>
name_s == <<"s">>
name_d == <<"d">>
name_e == <<"e">>
name_f == <<"f">>
name_g == <<"g">>
name_m == <<"m">>
name_args == <<"a", "r", "g", "s">>
name_kw == <<"k", "w", "_">>

\* inspect.Parameter: annotation is "empty", the name of a type, or
\* "nontype" for an annotation that is no instance of type
Param(nm, kd, an, df) == [name |-> nm, kind |-> kd, annotation |-> an, default |-> df]
POSITIONAL_OR_KEYWORD == "POSITIONAL_OR_KEYWORD"
VAR_POSITIONAL == "VAR_POSITIONAL"
VAR_KEYWORD == "VAR_KEYWORD"

\* The parameters signatures are drawn from, in an order Python accepts
\* (no default, then defaults, then *args, then **kw_):
\*   def __init__(self, t_: list, a_n: int, b: bool, u, i_d=1, r=1.5,
\*                s='', d: int = None, e=True, f=False, g: bool = None,
\*                m: list = 1, *args, **kw_)
ParameterPool ==
  << Param(name_self, POSITIONAL_OR_KEYWORD, "empty", Empty),
     Param(name_skip, POSITIONAL_OR_KEYWORD, "list", Empty),
     Param(name_a_n, POSITIONAL_OR_KEYWORD, "int", Empty),
     Param(name_b, POSITIONAL_OR_KEYWORD, "bool", Empty),
     Param(name_u, POSITIONAL_OR_KEYWORD, "empty", Empty),
     Param(name_i_d, POSITIONAL_OR_KEYWORD, "empty", IntVal(1)),
     Param(name_r, POSITIONAL_OR_KEYWORD, "empty", FloatVal(15)),
     Param(name_s, POSITIONAL_OR_KEYWORD, "empty", StrVal(<<>>)),
     Param(name_d, POSITIONAL_OR_KEYWORD, "int", NoneVal),
     Param(name_e, POSITIONAL_OR_KEYWORD, "empty", BoolVal(TRUE)),
     Param(name_f, POSITIONAL_OR_KEYWORD, "empty", BoolVal(FALSE)),
     Param(name_g, POSITIONAL_OR_KEYWORD, "bool", NoneVal),
     Param(name_m, POSITIONAL_OR_KEYWORD, "list", IntVal(1)),
     Param(name_args, VAR_POSITIONAL, "empty", Empty),
     Param(name_kw, VAR_KEYWORD, "empty", Empty) >>

\* the members of a set of pool positions, in pool order
RECURSIVE in_order(_)
in_order(S) ==
  IF S = {} THEN <<>>
  ELSE LET m == CHOOSE x \in S : \A y \in S : x <= y
       IN <<ParameterPool[m]>> \o in_order(S \ {m})

\* inspect.signature(obj).parameters.values() of the callables explored
Signatures ==
  {in_order(S) : S \in {T \in SUBSET DOMAIN ParameterPool : Cardinality(T) <= MaxParams}}

\* Parameters with a None default and parameters whose names end in the
\* suffix of a boolean parser key:
\*   def __init__(self, a_n: int, b: bool, b_store_true: int, u,
\*                d: int = None, g: bool = None, n=None, e=True,
\*                e_store_false='')
name_n == <<"n">>
name_b_store_true == name_b \o <<"_", "s", "t", "o", "r", "e", "_", "t", "r", "u", "e">>
name_e_store_false == name_e \o <<"_", "s", "t", "o", "r", "e", "_", "f", "a", "l", "s", "e">>

SpecialParameterPool ==
  << Param(name_self, POSITIONAL_OR_KEYWORD, "empty", Empty),
     Param(name_a_n, POSITIONAL_OR_KEYWORD, "int", Empty),
     Param(name_b, POSITIONAL_OR_KEYWORD, "bool", Empty),
     Param(name_b_store_true, POSITIONAL_OR_KEYWORD, "int", Empty),
     Param(name_u, POSITIONAL_OR_KEYWORD, "empty", Empty),
     Param(name_d, POSITIONAL_OR_KEYWORD, "int", NoneVal),
     Param(name_g, POSITIONAL_OR_KEYWORD, "bool", NoneVal),
     Param(name_n, POSITIONAL_OR_KEYWORD, "empty", NoneVal),
     Param(name_e, POSITIONAL_OR_KEYWORD, "empty", BoolVal(TRUE)),
     Param(name_e_store_false, POSITIONAL_OR_KEYWORD, "empty", StrVal(<<>>)) >>

RECURSIVE special_in_order(_)
special_in_order(S) ==
  IF S = {} THEN <<>>
  ELSE LET m == CHOOSE x \in S : \A y \in S : x <= y
       IN <<SpecialParameterPool[m]>> \o special_in_order(S \ {m})

SpecialSignatures ==
  {special_in_order(S) :
     S \in {T \in SUBSET DOMAIN SpecialParameterPool : Cardinality(T) <= MaxParams}}

(* ----------------------- dict (insertion ordered) ---------------------- *)
\* a dict is the sequence of its <<key, value>> items
dict_keys(d) == [i \in DOMAIN d |-> d[i][1]]
dict_has(d, k) == \E i \in DOMAIN d : d[i][1] = k
dict_get(d, k) == d[CHOOSE i \in DOMAIN d : d[i][1] = k][2]
\* d[k] = v: a present key keeps its place
dict_set(d, k, v) ==
  IF dict_has(d, k)
  THEN [i \in DOMAIN d |-> IF d[i][1] = k THEN <<k, v>> ELSE d[i]]
  ELSE Append(d, <<k, v>>)
\* d.get(k, default)
dict_get_or(d, k, dflt) == IF dict_has(d, k) THEN dict_get(d, k) ELSE dflt

(* ------------------------------- state --------------------------------- *)
VARIABLES
  package,            \* "arglink", "argkit" or "argkit.runtime": what obj is set up for
  sig,                \* inspect.signature(obj): the parameters in order
  help_messages,      \* _arglink_help_messages / obj_dict['help_msgs'] (<<>>: none)
  ignore_patterns,    \* _arglink_ignore_patterns
  ignore_list,        \* obj_dict['ignore_list'], or in argkit.runtime the values of
                      \* cls._argkit_ignore_map_parser_to_cls (<<>>: none)
  skip_first,         \* _argkit_skip_first
  auto_skip,          \* _argkit_auto_skip
  dict_callable_args_to_parser_args,          \* name -> parser key
  dict_callable_args_to_args_for_add_augment, \* name -> {'args', 'kwargs'}
  arglink_has_been_analyzed,                  \* _arglink_has_been_analyzed
  argkit_normal_map_parser_to_cls,            \* cls._argkit_normal_map_parser_to_cls
  parser,             \* the argparse parser: its argument groups in order
  outcome,            \* what the last call did: returned or raised
  first_analysis      \* the tables as the first successful analysis left them

vars ==
  << package, sig, help_messages, ignore_patterns, ignore_list, skip_first,
     auto_skip, dict_callable_args_to_parser_args,
     dict_callable_args_to_args_for_add_augment, arglink_has_been_analyzed,
     argkit_normal_map_parser_to_cls, parser, outcome, first_analysis >>

config_vars ==
  << package, sig, help_messages, ignore_patterns, ignore_list, skip_first, auto_skip >>

(* --------------------------- configuration ----------------------------- *)
pat_self == <<"^", "s", "e", "l", "f", "$">>
pat_cls == <<"^", "c", "l", "s", "$">>
pat_trailing == <<"^", ".", "*", "_", "$">>
pat_custom == <<"^", "i", "_", ".", "*", "$">>
help_a_n == <<"h", "e", "l", "p", " ", "a", "_", "n">>
help_e == <<"o", "n">>

\* the pattern list setup_arglink installs for ignore_patterns=None
default_ignore_patterns == <<pat_self, pat_cls, pat_trailing>>
\* a caller's own pattern list
custom_ignore_patterns == <<pat_custom>>
\* a caller's help messages and ignore list
some_help_messages == << <<name_a_n, help_a_n>>, <<name_e, help_e>> >>
some_ignore_list == <<name_skip, name_kw, name_r>>

\* the exceptions, named as the specification names them
UnsupportedParameterKind == "UnsupportedParameterKind"
UnsupportedType == "UnsupportedType"
MissingTypeInformation == "MissingTypeInformation"
MissingParsedValue == "MissingParsedValue"
ArgumentError == "ArgumentError"
NoError == "none"

(* --------------------------- flag synthesis ---------------------------- *)
\* '--' + param.name.replace('_', '-')
this_arg_name(name) == str_dashes \o replace(name, "_", "-")

\* help_messages.get(param.name, '') when there are help messages
this_param_help(name) == dict_get_or(help_messages, name, <<>>)

\* mutant: a missing default no longer counts as false
stores_true_only_false(default_value) == py_eq(default_value, BoolVal(FALSE))

\* this_param_default_value == False or this_param_default_value is None
stores_true(default_value) == py_eq(default_value, BoolVal(FALSE)) \/ default_value = NoneVal

\* the keywords of add_argument; a keyword left out is "notpassed" /
\* NotPassed, and required is TRUE only where required=True is passed
AddArgumentKwargs(act, typ, dflt, req, mv, hlp) ==
  [action |-> act, type |-> typ, default |-> dflt, required |-> req,
   metavar |-> mv, help |-> hlp]

\* the flag of a boolean parameter and its parser key
bool_flag(name, default_value) ==
  IF stores_true(default_value)
  THEN [parser_arg |-> name \o str_store_true_key,
        args |-> <<this_arg_name(name) \o str_store_true_flag>>,
        kwargs |-> AddArgumentKwargs("store_true", "notpassed", NotPassed, FALSE,
                                     <<>>, this_param_help(name))]
  ELSE [parser_arg |-> name \o str_store_false_key,
        args |-> <<this_arg_name(name) \o str_store_false_flag>>,
        kwargs |-> AddArgumentKwargs("store_false", "notpassed", NotPassed, FALSE,
                                     <<>>, this_param_help(name))]

\* mutant: the flag token keeps the underscores of the name
value_flag_keeps_underscores(name, this_param_type, this_param_has_default, default_value) ==
  [parser_arg |-> name,
   args |-> <<str_dashes \o name>>,
   kwargs |-> IF this_param_has_default
              THEN AddArgumentKwargs("notpassed", this_param_type, default_value, FALSE,
                     upper(type_name(this_param_type)),
                     str_default_open \o repr(default_value) \o str_default_close
                       \o this_param_help(name))
              ELSE AddArgumentKwargs("notpassed", this_param_type, NotPassed, TRUE,
                     upper(type_name(this_param_type)), this_param_help(name))]

\* mutant: the default is not handed to add_argument
value_flag_drops_default(name, this_param_type, this_param_has_default, default_value) ==
  [parser_arg |-> name,
   args |-> <<this_arg_name(name)>>,
   kwargs |-> IF this_param_has_default
              THEN AddArgumentKwargs("notpassed", this_param_type, NotPassed, FALSE,
                     upper(type_name(this_param_type)),
                     str_default_open \o repr(default_value) \o str_default_close
                       \o this_param_help(name))
              ELSE AddArgumentKwargs("notpassed", this_param_type, NotPassed, TRUE,
                     upper(type_name(this_param_type)), this_param_help(name))]

\* the flag of an int, float or str parameter and its parser key
value_flag(name, this_param_type, this_param_has_default, default_value) ==
  IF this_param_has_default
  THEN [parser_arg |-> name,
        args |-> <<this_arg_name(name)>>,
        kwargs |-> AddArgumentKwargs("notpassed", this_param_type, default_value, FALSE,
                     upper(type_name(this_param_type)),
                     str_default_open \o repr(default_value) \o str_default_close
                       \o this_param_help(name))]
  ELSE [parser_arg |-> name,
        args |-> <<this_arg_name(name)>>,
        kwargs |-> AddArgumentKwargs("notpassed", this_param_type, NotPassed, TRUE,
                     upper(type_name(this_param_type)), this_param_help(name))]

\* the second half of the loop body: from the type and the default of a
\* parameter to its entry in the two tables
synthesize(name, this_param_type, this_param_has_default, default_value) ==
  IF this_param_type = "bool"
  THEN bool_flag(name, default_value)
  ELSE value_flag(name, this_param_type, this_param_has_default, default_value)

(* ------------------------------ analysis ------------------------------- *)
\* the state of one run of the loop over the parameters
Run(p2k, p2a) == [p2k |-> p2k, p2a |-> p2a, err |-> NoError, param |-> <<>>, visited |-> 0]
raise(run, e, p) == [run EXCEPT !.err = e, !.param = p.name, !.visited = @ + 1]
continue(run) == [run EXCEPT !.visited = @ + 1]
store(run, p, flag) ==
  [run EXCEPT !.p2k = dict_set(@, p.name, flag.parser_arg),
              !.p2a = dict_set(@, p.name, [args |-> flag.args, kwargs |-> flag.kwargs]),
              !.visited = @ + 1]

this_param_has_default(p) == p.default # Empty
this_param_has_annotation(p) == p.annotation # "empty"
\* isinstance(param.annotation, type)
annotation_is_type(p) == p.annotation \notin {"empty", "nontype"}

\* any(re.fullmatch(p, param.name) for p in obj._arglink_ignore_patterns)
matches_ignore_pattern(name) ==
  \E i \in DOMAIN ignore_patterns : fullmatch(ignore_patterns[i], name)

\* mutant: a None default without an annotation counts as no type information
arglink_this_param_type_none_is_missing(p) ==
  IF this_param_has_annotation(p)
  THEN IF annotation_is_type(p)
       THEN [err |-> NoError, type |-> p.annotation]
       ELSE [err |-> UnsupportedType, type |-> "none"]
  ELSE IF this_param_has_default(p) /\ p.default # NoneVal
       THEN [err |-> NoError, type |-> type_of(p.default)]
       ELSE [err |-> MissingTypeInformation, type |-> "none"]

\* arglink, "First, extract the type of this parameter": the type, or the
\* exception raised
arglink_this_param_type(p) ==
  IF this_param_has_annotation(p)
  THEN IF annotation_is_type(p)
       THEN [err |-> NoError, type |-> p.annotation]
       ELSE [err |-> UnsupportedType, type |-> "none"]
  ELSE IF this_param_has_default(p)
       THEN [err |-> NoError, type |-> type_of(p.default)]
       ELSE [err |-> MissingTypeInformation, type |-> "none"]

\* mutant: the ignore patterns are consulted after the kind and type checks
arglink_visit_filter_last(run, p) ==
  IF p.kind # POSITIONAL_OR_KEYWORD /\ ~matches_ignore_pattern(p.name)
  THEN raise(run, UnsupportedParameterKind, p)
  ELSE LET typ == arglink_this_param_type(p)
           default_value == IF this_param_has_default(p) THEN p.default ELSE NoneVal
       IN IF p.kind = POSITIONAL_OR_KEYWORD /\ typ.err # NoError THEN raise(run, typ.err, p)
          ELSE IF p.kind = POSITIONAL_OR_KEYWORD /\ typ.type \notin SupportedTypes
               THEN raise(run, UnsupportedType, p)
          ELSE IF matches_ignore_pattern(p.name) THEN continue(run)
          ELSE store(run, p, synthesize(p.name, typ.type, this_param_has_default(p),
                                        default_value))

\* mutant: the kind is asserted before the ignore patterns are consulted
arglink_visit_kind_first(run, p) ==
  IF p.kind # POSITIONAL_OR_KEYWORD THEN raise(run, UnsupportedParameterKind, p)
  ELSE IF matches_ignore_pattern(p.name) THEN continue(run)
  ELSE LET typ == arglink_this_param_type(p)
           default_value == IF this_param_has_default(p) THEN p.default ELSE NoneVal
       IN IF typ.err # NoError THEN raise(run, typ.err, p)
          ELSE IF typ.type \notin SupportedTypes THEN raise(run, UnsupportedType, p)
          ELSE store(run, p, synthesize(p.name, typ.type, this_param_has_default(p),
                                        default_value))

\* arglink, one pass of the loop body
arglink_visit(run, p) ==
  IF matches_ignore_pattern(p.name) THEN continue(run)
  ELSE IF p.kind # POSITIONAL_OR_KEYWORD THEN raise(run, UnsupportedParameterKind, p)
  ELSE LET typ == arglink_this_param_type(p)
           default_value == IF this_param_has_default(p) THEN p.default ELSE NoneVal
       IN IF typ.err # NoError THEN raise(run, typ.err, p)
          ELSE IF typ.type \notin SupportedTypes THEN raise(run, UnsupportedType, p)
          ELSE store(run, p, synthesize(p.name, typ.type, this_param_has_default(p),
                                        default_value))

RECURSIVE arglink_loop(_, _, _)
arglink_loop(params, i, run) ==
  IF i > Len(params) \/ run.err # NoError THEN run
  ELSE arglink_loop(params, i + 1, arglink_visit(run, params[i]))

\* mutant: the marker is set but never consulted
arglink_analysis_without_marker ==
  LET run == arglink_loop(sig, 1, Run(dict_callable_args_to_parser_args,
                                      dict_callable_args_to_args_for_add_augment))
  IN [run |-> run, analyzed |-> (run.err = NoError)]

\* arglink analyze_callable_args(obj): the tables, the marker and the
\* exception it leaves
arglink_analysis ==
  IF arglink_has_been_analyzed
  THEN [run |-> Run(dict_callable_args_to_parser_args,
                    dict_callable_args_to_args_for_add_augment),
        analyzed |-> TRUE]
  ELSE LET run == arglink_loop(sig, 1, Run(dict_callable_args_to_parser_args,
                                           dict_callable_args_to_args_for_add_augment))
       IN [run |-> run, analyzed |-> (run.err = NoError)]

\* param.name in obj_dict['ignore_list'], when there is an ignore list
in_ignore_list(name) == \E i \in DOMAIN ignore_list : ignore_list[i] = name

\* argkit: the type and the default value of a parameter, or the
\* AssertionError of the first try block
argkit_this_param_type(p) ==
  IF this_param_has_default(p) /\ p.default # NoneVal
  THEN [err |-> NoError, type |-> type_of(p.default), default_value |-> p.default]
  ELSE IF ~this_param_has_annotation(p)
       THEN [err |-> MissingTypeInformation, type |-> "none", default_value |-> NoneVal]
       ELSE IF ~annotation_is_type(p)
            THEN [err |-> UnsupportedType, type |-> "none", default_value |-> NoneVal]
            ELSE [err |-> NoError, type |-> p.annotation, default_value |-> NoneVal]

\* mutant: the AssertionError is raised whatever auto_skip says
skip_or_raise_always_raises(run, e, p) == raise(run, e, p)

\* except AssertionError: continue when auto_skip, else raise
skip_or_raise(run, e, p) == IF auto_skip THEN continue(run) ELSE raise(run, e, p)

\* argkit, one pass of the loop body
argkit_visit(run, p) ==
  IF in_ignore_list(p.name) THEN continue(run)
  ELSE IF p.kind # POSITIONAL_OR_KEYWORD THEN raise(run, UnsupportedParameterKind, p)
  ELSE LET typ == argkit_this_param_type(p)
       IN IF typ.err # NoError THEN skip_or_raise(run, typ.err, p)
          ELSE IF typ.type \notin SupportedTypes THEN skip_or_raise(run, UnsupportedType, p)
          ELSE store(run, p, synthesize(p.name, typ.type, this_param_has_default(p),
                                        typ.default_value))

RECURSIVE argkit_loop(_, _, _)
argkit_loop(params, i, run) ==
  IF i > Len(params) \/ run.err # NoError THEN run
  ELSE argkit_loop(params, i + 1, argkit_visit(run, params[i]))

\* start_from = 1 if skip_first else 0
start_from == IF skip_first THEN 1 ELSE 0

\* argkit analyze_callable_args(obj): both tables are emptied, then filled
argkit_analysis ==
  LET run == argkit_loop(sig, start_from + 1, Run(<<>>, <<>>))
  IN [run |-> run, analyzed |-> FALSE]

(* ------------------------------ argparse ------------------------------- *)
\* the attribute of the namespace a long option is stored under
argparse_dest(option_string) == replace(lstrip_prefix(option_string, str_dashes), "-", "_")

\* the action add_argument builds from a flag definition
argparse_action(v) ==
  [option_strings |-> v.args,
   dest |-> argparse_dest(v.args[1]),
   action |-> IF v.kwargs.action = "notpassed" THEN "store" ELSE v.kwargs.action,
   type |-> v.kwargs.type,
   default |-> CASE v.kwargs.action = "store_true" -> BoolVal(FALSE)
                 [] v.kwargs.action = "store_false" -> BoolVal(TRUE)
                 [] v.kwargs.default = NotPassed -> NoneVal
                 [] OTHER -> v.kwargs.default,
   required |-> v.kwargs.required,
   metavar |-> v.kwargs.metavar,
   help |-> v.kwargs.help]

\* every option string the parser knows
option_strings_of(groups) ==
  UNION {{groups[g].actions[a].option_strings[1] : a \in DOMAIN groups[g].actions} :
           g \in DOMAIN groups}

\* group.add_argument(*v['args'], **v['kwargs']) for each flag in table
\* order; a known option string raises ArgumentError and ends the loop
RECURSIVE add_arguments(_, _, _)
add_arguments(groups, flags, i) ==
  IF i > Len(flags) THEN [groups |-> groups, err |-> NoError]
  ELSE LET v == flags[i][2]
       IN IF v.args[1] \in option_strings_of(groups)
          THEN [groups |-> groups, err |-> ArgumentError]
          ELSE add_arguments(
                 [groups EXCEPT ![Len(groups)].actions = Append(@, argparse_action(v))],
                 flags, i + 1)

\* mutant: the flags are added last first
register_in_reverse(groups, flags) ==
  add_arguments(Append(groups, [title |-> "arguments for obj", actions |-> <<>>]),
                [i \in DOMAIN flags |-> flags[Len(flags) + 1 - i]], 1)

\* parser.add_argument_group(title), then the flags
register(groups, flags) ==
  add_arguments(Append(groups, [title |-> "arguments for obj", actions |-> <<>>]), flags, 1)

\* the value parse_args stores for a flag that is not given: its default,
\* a text default first converted by the flag's type
value_when_absent(a) ==
  IF a.default.t = "str" /\ a.type \notin {"str", "notpassed"}
  THEN [t |-> "error", n |-> 0, s |-> a.default.s]
  ELSE a.default

\* vars(namespace) when no flag is given
RECURSIVE namespace_from(_, _, _)
namespace_from(groups, g, a) ==
  IF g > Len(groups) THEN <<>>
  ELSE IF a > Len(groups[g].actions) THEN namespace_from(groups, g + 1, 1)
  ELSE LET act == groups[g].actions[a]
           rest == namespace_from(groups, g, a + 1)
       IN IF dict_has(rest, act.dest) THEN rest
          ELSE <<<<act.dest, value_when_absent(act)>>>> \o rest

namespace_of_defaults(groups) == namespace_from(groups, 1, 1)

(* ------------------- argkit.runtime: cls_arg_to_parser ----------------- *)
\* p_obj.name in cls._argkit_ignore_map_parser_to_cls.values(), when the
\* class has that map
in_ignore_map_values(name) == \E i \in DOMAIN ignore_list : ignore_list[i] = name

\* the type and the default value of a parameter, or the AssertionError
cls_this_param_type(p) ==
  IF this_param_has_default(p) /\ p.default # NoneVal
  THEN [err |-> NoError, type |-> type_of(p.default), default_value |-> p.default]
  ELSE IF ~this_param_has_annotation(p)
       THEN [err |-> MissingTypeInformation, type |-> "none", default_value |-> NoneVal]
       ELSE IF ~annotation_is_type(p)
            THEN [err |-> UnsupportedType, type |-> "none", default_value |-> NoneVal]
            ELSE [err |-> NoError, type |-> p.annotation, default_value |-> NoneVal]

\* the add_argument call of a parameter and the parser key it is mapped
\* under; the help is the help message alone
cls_flag(name, this_param_type, has_default, default_value) ==
  IF this_param_type = "bool"
  THEN IF stores_true(default_value)
       THEN [parser_arg |-> name \o str_store_true_key,
             args |-> <<this_arg_name(name) \o str_store_true_flag>>,
             kwargs |-> AddArgumentKwargs("store_true", "notpassed", NotPassed, FALSE,
                                          <<>>, this_param_help(name))]
       ELSE [parser_arg |-> name \o str_store_false_key,
             args |-> <<this_arg_name(name) \o str_store_false_flag>>,
             kwargs |-> AddArgumentKwargs("store_false", "notpassed", NotPassed, FALSE,
                                          <<>>, this_param_help(name))]
  ELSE IF has_default
       THEN [parser_arg |-> name,
             args |-> <<this_arg_name(name)>>,
             kwargs |-> AddArgumentKwargs("notpassed", this_param_type, default_value, FALSE,
                                          upper(type_name(this_param_type)),
                                          this_param_help(name))]
       ELSE [parser_arg |-> name,
             args |-> <<this_arg_name(name)>>,
             kwargs |-> AddArgumentKwargs("notpassed", this_param_type, NotPassed, TRUE,
                                          upper(type_name(this_param_type)),
                                          this_param_help(name))]

\* the state of one run of cls_arg_to_parser: the parser's groups, the
\* last of which is the group just added, and the map of the class
ClsRun(groups, map) ==
  [groups |-> groups, map |-> map, err |-> NoError, param |-> <<>>, visited |-> 0]

\* group.add_argument(...), then the entry of the map; a known option
\* string raises ArgumentError before the map is written
cls_add_argument(run, p, flag) ==
  IF flag.args[1] \in option_strings_of(run.groups)
  THEN raise(run, ArgumentError, p)
  ELSE LET last == Len(run.groups)
       IN [run EXCEPT !.groups[last].actions = Append(@, argparse_action(flag)),
                      !.map = dict_set(@, flag.parser_arg, p.name),
                      !.visited = @ + 1]

\* one pass of the loop body
cls_visit(run, p) ==
  IF in_ignore_map_values(p.name) THEN continue(run)
  ELSE IF p.kind # POSITIONAL_OR_KEYWORD THEN raise(run, UnsupportedParameterKind, p)
  ELSE LET typ == cls_this_param_type(p)
       IN IF typ.err # NoError THEN raise(run, typ.err, p)
          ELSE IF typ.type \notin SupportedTypes THEN raise(run, UnsupportedType, p)
          ELSE cls_add_argument(run, p, cls_flag(p.name, typ.type, this_param_has_default(p),
                                                  typ.default_value))

\* for p_obj in list(sig.parameters.values())[1:]
RECURSIVE cls_loop(_, _, _)
cls_loop(params, i, run) ==
  IF i > Len(params) \/ run.err # NoError THEN run
  ELSE cls_loop(params, i + 1, cls_visit(run, params[i]))

\* the whole call: the group is added to the parser first, then the loop
\* runs on it (a class without _argkit_manual_handler)
cls_registration ==
  cls_loop(sig, 2, ClsRun(Append(parser, [title |-> "arguments for class", actions |-> <<>>]),
                          argkit_normal_map_parser_to_cls))

(* --------------------------- reverse binding --------------------------- *)
\* for callable_arg, parser_arg in ....items():
\*     callable_kw_dict[callable_arg] = args[parser_arg]
\* a key args lacks raises KeyError and nothing is returned
RECURSIVE kw_dict_loop(_, _, _, _)
kw_dict_loop(args, p2k, i, callable_kw_dict) ==
  IF i > Len(p2k) THEN [err |-> NoError, kw |-> callable_kw_dict]
  ELSE IF ~dict_has(args, p2k[i][2]) THEN [err |-> MissingParsedValue, kw |-> <<>>]
  ELSE kw_dict_loop(args, p2k, i + 1,
                    dict_set(callable_kw_dict, p2k[i][1], dict_get(args, p2k[i][2])))

\* mutant: the value is looked up under the parameter name
RECURSIVE kw_dict_by_name_loop(_, _, _, _)
kw_dict_by_name_loop(args, p2k, i, callable_kw_dict) ==
  IF i > Len(p2k) THEN [err |-> NoError, kw |-> callable_kw_dict]
  ELSE IF ~dict_has(args, p2k[i][1]) THEN [err |-> MissingParsedValue, kw |-> <<>>]
  ELSE kw_dict_by_name_loop(args, p2k, i + 1,
                            dict_set(callable_kw_dict, p2k[i][1], dict_get(args, p2k[i][1])))
kw_dict_by_name(args, p2k) == kw_dict_by_name_loop(args, p2k, 1, <<>>)

\* mutant: a key the parsed values lack is passed over
RECURSIVE kw_dict_skips_missing_loop(_, _, _, _)
kw_dict_skips_missing_loop(args, p2k, i, callable_kw_dict) ==
  IF i > Len(p2k) THEN [err |-> NoError, kw |-> callable_kw_dict]
  ELSE IF ~dict_has(args, p2k[i][2])
       THEN kw_dict_skips_missing_loop(args, p2k, i + 1, callable_kw_dict)
  ELSE kw_dict_skips_missing_loop(args, p2k, i + 1,
         dict_set(callable_kw_dict, p2k[i][1], dict_get(args, p2k[i][2])))
kw_dict_skips_missing(args, p2k) == kw_dict_skips_missing_loop(args, p2k, 1, <<>>)

kw_dict(args, p2k) == kw_dict_loop(args, p2k, 1, <<>>)

(* ------------------------------- inputs -------------------------------- *)
stray_key == <<"o", "t", "h", "e", "r">>

\* every key a parameter of the signature can be parsed under
RECURSIVE keys_of_signature(_, _)
keys_of_signature(params, i) ==
  IF i > Len(params) THEN <<stray_key>>
  ELSE << params[i].name, params[i].name \o str_store_true_key,
          params[i].name \o str_store_false_key >> \o keys_of_signature(params, i + 1)

\* a parsed-value mapping that holds a different value under every key,
\* numbers and texts in turn
explicit_args ==
  LET ks == keys_of_signature(sig, 1)
  IN [i \in DOMAIN ks |-> <<ks[i], IF i % 2 = 0 THEN StrVal(ks[i]) ELSE IntVal(i)>>]

\* the same mapping without the keys of the last parameter of the signature
partial_args ==
  LET ks == keys_of_signature(SubSeq(sig, 1, Len(sig) - 1), 1)
  IN [i \in DOMAIN ks |-> <<ks[i], IF i % 2 = 0 THEN StrVal(ks[i]) ELSE IntVal(i)>>]

\* the parsed-value mappings handed to the reverse binder: what the parser
\* yields when no flag is given, or an explicit mapping
ParsedArgs == {namespace_of_defaults(parser), explicit_args}

(* ------------------------------- actions ------------------------------- *)
\* repeat: an analysis had already succeeded when the call was made
Outcome(op, err, param, visited, args, kw) ==
  [op |-> op, err |-> err, param |-> param, visited |-> visited, args |-> args, kw |-> kw,
   repeat |-> first_analysis.done]

\* the history of the first analysis that succeeded
remember(a) ==
  IF first_analysis.done \/ a.run.err # NoError THEN first_analysis
  ELSE [done |-> TRUE, p2k |-> a.run.p2k, p2a |-> a.run.p2a]

\* what every call does first: analyze_callable_args(obj)
analyzed_by(a) ==
  /\ dict_callable_args_to_parser_args' = a.run.p2k
  /\ dict_callable_args_to_args_for_add_augment' = a.run.p2a
  /\ arglink_has_been_analyzed' = a.analyzed
  /\ first_analysis' = remember(a)
  /\ UNCHANGED <<config_vars, argkit_normal_map_parser_to_cls>>

Analyze(a) ==
  /\ analyzed_by(a)
  /\ outcome' = Outcome("analyze", a.run.err, a.run.param, a.run.visited, <<>>, <<>>)
  /\ UNCHANGED parser

Register(a) ==
  /\ Len(parser) < MaxGroups
  /\ analyzed_by(a)
  /\ IF a.run.err # NoError
     THEN /\ parser' = parser
          /\ outcome' = Outcome("register", a.run.err, a.run.param, a.run.visited, <<>>, <<>>)
     ELSE LET r == register(parser, a.run.p2a)
          IN /\ parser' = r.groups
             /\ outcome' = Outcome("register", r.err, <<>>, a.run.visited, <<>>, <<>>)

Bind(a, args) ==
  /\ analyzed_by(a)
  /\ UNCHANGED parser
  /\ IF a.run.err # NoError
     THEN outcome' = Outcome("bind", a.run.err, a.run.param, a.run.visited, args, <<>>)
     ELSE LET r == kw_dict(args, a.run.p2k)
          IN outcome' = Outcome("bind", r.err, <<>>, a.run.visited, args, r.kw)

\* arglink
analyze_callable_args == package = "arglink" /\ \E a \in {arglink_analysis} : Analyze(a)
callable_args_to_parser_args == package = "arglink" /\ \E a \in {arglink_analysis} : Register(a)
parser_args_to_callable_kw_dict ==
  package = "arglink" /\ \E a \in {arglink_analysis} : \E args \in ParsedArgs : Bind(a, args)

\* argkit
argkit_analyze_callable_args == package = "argkit" /\ \E a \in {argkit_analysis} : Analyze(a)
add_callable_args_to_parser_args == package = "argkit" /\ \E a \in {argkit_analysis} : Register(a)
transfer_parser_args_to_callable_kw_dict ==
  package = "argkit" /\ \E a \in {argkit_analysis} : \E args \in ParsedArgs : Bind(a, args)

\* the decorated callable: setup_arglink(...) or attach_argkit_meta_info(...)
\* applied to a callable with one of the signatures
decorated(signatures) ==
  /\ package \in {"arglink", "argkit"}
  /\ sig \in signatures
  /\ IF package = "arglink"
     THEN \* setup_arglink(), setup_arglink(help_messages=...) or
          \* setup_arglink(help_messages=..., ignore_patterns=...)
          /\ \E setup \in { <<<<>>, default_ignore_patterns>>,
                            <<some_help_messages, default_ignore_patterns>>,
                            <<some_help_messages, custom_ignore_patterns>> } :
               help_messages = setup[1] /\ ignore_patterns = setup[2]
          /\ ignore_list = <<>>
          /\ skip_first = FALSE
          /\ auto_skip = FALSE
     ELSE \* attach_argkit_meta_info(obj_dict, skip_first, auto_skip) with
          \* obj_dict empty or holding help_msgs and ignore_list
          /\ \E obj_dict \in { <<<<>>, <<>>>>, <<some_help_messages, some_ignore_list>> } :
               help_messages = obj_dict[1] /\ ignore_list = obj_dict[2]
          /\ ignore_patterns = <<>>
          /\ skip_first \in BOOLEAN
          /\ auto_skip \in BOOLEAN
  /\ dict_callable_args_to_parser_args = <<>>
  /\ dict_callable_args_to_args_for_add_augment = <<>>
  /\ arglink_has_been_analyzed = FALSE
  /\ argkit_normal_map_parser_to_cls = <<>>
  /\ parser = <<>>
  /\ first_analysis = [done |-> FALSE, p2k |-> <<>>, p2a |-> <<>>]
  /\ outcome = [op |-> "none", err |-> NoError, param |-> <<>>, visited |-> 0,
                args |-> <<>>, kw |-> <<>>, repeat |-> FALSE]

Init == decorated(Signatures)

Next ==
  \/ analyze_callable_args
  \/ callable_args_to_parser_args
  \/ parser_args_to_callable_kw_dict
  \/ argkit_analyze_callable_args
  \/ add_callable_args_to_parser_args
  \/ transfer_parser_args_to_callable_kw_dict

Spec == Init /\ [][Next]_vars

\* the same program on the signatures of SpecialParameterPool, its reverse
\* binder also handed a mapping that lacks keys
InitSpecial == decorated(SpecialSignatures)

bind_lacking_keys ==
  \/ package = "arglink" /\ \E a \in {arglink_analysis} : Bind(a, partial_args)
  \/ package = "argkit" /\ \E a \in {argkit_analysis} : Bind(a, partial_args)

NextSpecial == Next \/ bind_lacking_keys

SpecSpecial == InitSpecial /\ [][NextSpecial]_vars

(* ---------------------------- argkit.runtime --------------------------- *)
\* cls_arg_to_parser(cls, parser)
cls_arg_to_parser ==
  /\ package = "argkit.runtime"
  /\ Len(parser) < MaxGroups
  /\ \E run \in {cls_registration} :
       /\ parser' = run.groups
       /\ argkit_normal_map_parser_to_cls' = run.map
       /\ outcome' = Outcome("register", run.err, run.param, run.visited, <<>>, <<>>)
  /\ UNCHANGED << config_vars, dict_callable_args_to_parser_args,
                  dict_callable_args_to_args_for_add_augment, arglink_has_been_analyzed,
                  first_analysis >>

\* a class whose __init__ is handed to cls_arg_to_parser: without
\* attributes, or with _argkit_help_msgs and _argkit_ignore_map_parser_to_cls;
\* the first parameter is always left out ([1:])
InitRuntime ==
  /\ package = "argkit.runtime"
  /\ sig \in Signatures
  /\ \E cls \in { <<<<>>, <<>>>>, <<some_help_messages, some_ignore_list>> } :
       help_messages = cls[1] /\ ignore_list = cls[2]
  /\ ignore_patterns = <<>>
  /\ skip_first = TRUE
  /\ auto_skip = FALSE
  /\ dict_callable_args_to_parser_args = <<>>
  /\ dict_callable_args_to_args_for_add_augment = <<>>
  /\ arglink_has_been_analyzed = FALSE
  /\ argkit_normal_map_parser_to_cls = <<>>
  /\ parser = <<>>
  /\ first_analysis = [done |-> FALSE, p2k |-> <<>>, p2a |-> <<>>]
  /\ outcome = [op |-> "none", err |-> NoError, param |-> <<>>, visited |-> 0,
                args |-> <<>>, kw |-> <<>>, repeat |-> FALSE]

NextRuntime == cls_arg_to_parser

SpecRuntime == InitRuntime /\ [][NextRuntime]_vars

(* ------------------------ vocabulary of the claims --------------------- *)
AnalysisErrors == {UnsupportedParameterKind, UnsupportedType, MissingTypeInformation}
names_of(d) == {d[i][1] : i \in DOMAIN d}
values_of(d) == {d[i][2] : i \in DOMAIN d}
in_signature(nm) == \E i \in DOMAIN sig : sig[i].name = nm
param_named(nm) == sig[CHOOSE i \in DOMAIN sig : sig[i].name = nm]
called == outcome.op # "none"
analysis_failed == outcome.err \in AnalysisErrors

\* the value type the package gives a parameter ("none": it gives none)
value_type_of(p) ==
  IF package = "arglink" THEN arglink_this_param_type(p).type
  ELSE argkit_this_param_type(p).type

\* the option strings of a group, action by action
flag_names_of_group(g) == [a \in DOMAIN g.actions |-> g.actions[a].option_strings]

\* every flag of the table is on the parser: a group of the parser holds
\* one action per entry of the table, in the order of the table
all_flags_registered ==
  \E g \in DOMAIN parser :
    flag_names_of_group(parser[g]) =
      [i \in DOMAIN dict_callable_args_to_args_for_add_augment |->
         dict_callable_args_to_args_for_add_augment[i][2].args]

(* -------------------------------- C1 ----------------------------------- *)
\* C1: reverse binding.  When the analysis succeeds and the parsed-value
\* mapping holds every parser key of the table, the call returns a mapping
\* whose keys are exactly the retained parameter names, each holding,
\* unchanged, the value stored under that parameter's parser key; what the
\* parsed-value mapping holds under other keys is not in the result.
C1_ReverseBinding ==
  (outcome.op = "bind" /\ ~analysis_failed
     /\ \A i \in DOMAIN dict_callable_args_to_parser_args :
          dict_has(outcome.args, dict_callable_args_to_parser_args[i][2]))
  => /\ outcome.err = NoError
     /\ Len(outcome.kw) = Len(dict_callable_args_to_parser_args)
     /\ names_of(outcome.kw) = names_of(dict_callable_args_to_parser_args)
     /\ \A i \in DOMAIN dict_callable_args_to_parser_args :
          dict_get(outcome.kw, dict_callable_args_to_parser_args[i][1])
            = dict_get(outcome.args, dict_callable_args_to_parser_args[i][2])
     /\ \A j \in DOMAIN outcome.args :
          outcome.args[j][1] \notin values_of(dict_callable_args_to_parser_args)
          => /\ (~in_signature(outcome.args[j][1]) => ~dict_has(outcome.kw, outcome.args[j][1]))
             /\ (outcome.args = explicit_args => outcome.args[j][2] \notin values_of(outcome.kw))

\* a boolean and a required parameter are bound from an explicit mapping
\* that also holds a stray key: b comes from b_store_true, a_n from a_n
C1_Witness ==
  /\ outcome.op = "bind" /\ outcome.err = NoError
  /\ outcome.args = explicit_args
  /\ dict_has(outcome.args, stray_key)
  /\ dict_keys(outcome.kw) = <<name_a_n, name_b>>
  /\ dict_get(outcome.kw, name_b) = dict_get(outcome.args, name_b \o str_store_true_key)
  /\ dict_get(outcome.kw, name_b) # dict_get(outcome.args, name_b)

(* -------------------------------- C2 ----------------------------------- *)
\* C2: boolean polarity.  A retained boolean parameter whose default is
\* false or missing has the store-true flag '--<kebab name>-store-true'
\* under the parser key '<name>_store_true', and the parser yields False
\* when the flag is not given; one whose default is true has the store-false
\* flag '--<kebab name>-store-false' under '<name>_store_false', and the
\* parser yields True when the flag is not given.
C2_Polarity(nm, suffix_flag, suffix_key, action, absent) ==
  LET v == dict_get(dict_callable_args_to_args_for_add_augment, nm)
      key == dict_get(dict_callable_args_to_parser_args, nm)
  IN /\ v.args = <<str_dashes \o replace(nm, "_", "-") \o suffix_flag>>
     /\ v.kwargs.action = action
     /\ key = nm \o suffix_key
     /\ all_flags_registered =>
          /\ dict_has(namespace_of_defaults(parser), key)
          /\ dict_get(namespace_of_defaults(parser), key) = absent

C2_BooleanPolarity ==
  \A i \in DOMAIN dict_callable_args_to_args_for_add_augment :
    LET nm == dict_callable_args_to_args_for_add_augment[i][1]
        p == param_named(nm)
    IN value_type_of(p) = "bool" =>
         /\ dict_has(dict_callable_args_to_parser_args, nm)
         /\ (p.default = Empty \/ p.default = BoolVal(FALSE)) =>
              C2_Polarity(nm, str_store_true_flag, str_store_true_key, "store_true",
                          BoolVal(FALSE))
         /\ p.default = BoolVal(TRUE) =>
              C2_Polarity(nm, str_store_false_flag, str_store_false_key, "store_false",
                          BoolVal(TRUE))

\* b: bool, e=True and f=False are registered: --b-store-true,
\* --e-store-false and --f-store-true are on the parser
C2_Witness ==
  /\ outcome.op = "register" /\ outcome.err = NoError
  /\ dict_keys(dict_callable_args_to_parser_args) = <<name_b, name_e, name_f>>
  /\ all_flags_registered
  /\ namespace_of_defaults(parser) =
       << <<name_b \o str_store_true_key, BoolVal(FALSE)>>,
          <<name_e \o str_store_false_key, BoolVal(TRUE)>>,
          <<name_f \o str_store_true_key, BoolVal(FALSE)>> >>
  /\ dict_get(dict_callable_args_to_args_for_add_augment, name_e).args =
       << <<"-", "-", "e", "-", "s", "t", "o", "r", "e", "-", "f", "a", "l", "s", "e">> >>

(* -------------------------------- C3 ----------------------------------- *)
\* C3: the flag of a retained int, float or str parameter.  The parser key
\* is the parameter name, the flag token is '--' and the name with '-' for
\* every '_', the metavar is the upper-cased type name, and the flag is
\* required exactly when the parameter has no default; with a default (a
\* null one too) it carries that default unchanged and its help is
\* '(default: <repr>) ' followed by the configured help message.
C3_NonBooleanFlag ==
  \A i \in DOMAIN dict_callable_args_to_args_for_add_augment :
    LET nm == dict_callable_args_to_args_for_add_augment[i][1]
        v == dict_callable_args_to_args_for_add_augment[i][2]
        p == param_named(nm)
        msg == dict_get_or(help_messages, nm, <<>>)
    IN value_type_of(p) \in {"int", "float", "str"} =>
         /\ dict_has(dict_callable_args_to_parser_args, nm)
         /\ dict_get(dict_callable_args_to_parser_args, nm) = nm
         /\ v.args = <<str_dashes \o replace(nm, "_", "-")>>
         /\ v.kwargs.action = "notpassed"
         /\ v.kwargs.type = value_type_of(p)
         /\ v.kwargs.metavar = upper(type_name(value_type_of(p)))
         /\ v.kwargs.required = (p.default = Empty)
         /\ p.default = Empty => v.kwargs.default = NotPassed /\ v.kwargs.help = msg
         /\ p.default # Empty =>
              /\ v.kwargs.default = p.default
              /\ v.kwargs.help = str_default_open \o repr(p.default) \o str_default_close \o msg

\* a_n: int, r=1.5 and d: int = None are analysed with help messages:
\* --a-n INT is required, --r FLOAT shows (default: 1.5), --d INT (default: None)
C3_Witness ==
  /\ ~analysis_failed /\ called
  /\ help_messages = some_help_messages
  /\ dict_keys(dict_callable_args_to_parser_args) = <<name_a_n, name_r, name_d>>
  /\ dict_get(dict_callable_args_to_args_for_add_augment, name_a_n) =
       [args |-> << <<"-", "-", "a", "-", "n">> >>,
        kwargs |-> AddArgumentKwargs("notpassed", "int", NotPassed, TRUE,
                                     <<"I", "N", "T">>, help_a_n)]
  /\ dict_get(dict_callable_args_to_args_for_add_augment, name_r).kwargs.help =
       <<"(", "d", "e", "f", "a", "u", "l", "t", ":", " ", "1", ".", "5", ")", " ">>
  /\ dict_get(dict_callable_args_to_args_for_add_augment, name_r).kwargs.metavar =
       <<"F", "L", "O", "A", "T">>
  /\ dict_get(dict_callable_args_to_args_for_add_augment, name_d).kwargs.default = NoneVal
  /\ dict_get(dict_callable_args_to_args_for_add_augment, name_d).kwargs.help =
       <<"(", "d", "e", "f", "a", "u", "l", "t", ":", " ", "N", "o", "n", "e", ")", " ">>

(* -------------------------------- C4 ----------------------------------- *)
\* the Filter keeps the parameter at position i
kept(i) ==
  IF package = "arglink" THEN ~matches_ignore_pattern(sig[i].name)
  ELSE ~(skip_first /\ i = 1) /\ ~in_ignore_list(sig[i].name)

\* the parameter at position i has an entry in both tables
bound(i) ==
  /\ dict_has(dict_callable_args_to_parser_args, sig[i].name)
  /\ dict_has(dict_callable_args_to_args_for_add_augment, sig[i].name)

\* the parameter is of the supported kind and its type resolves
resolvable(p) == p.kind = POSITIONAL_OR_KEYWORD /\ value_type_of(p) \in SupportedTypes

\* analyze, register on a fresh parser, parse with no flag given, bind
round_trip_of_defaults ==
  /\ outcome.op = "bind" /\ outcome.err = NoError
  /\ outcome.args = namespace_of_defaults(parser)
  /\ all_flags_registered
  /\ \A i \in DOMAIN sig : resolvable(sig[i])

\* C4 as stated: after the round trip of defaults every (retained)
\* parameter that has a default is mapped to a value equal to that default.
C4_Original ==
  round_trip_of_defaults =>
    \A i \in DOMAIN sig :
      (sig[i].default # Empty /\ dict_has(outcome.kw, sig[i].name))
      => py_eq(dict_get(outcome.kw, sig[i].name), sig[i].default)

\* C4 as amended: after the round trip of defaults every retained
\* non-boolean parameter that has a default is mapped to that default (a
\* text default of a non-text parameter aside, which argparse converts),
\* and every retained boolean parameter that has a default is mapped to
\* False when the default is None or equals False and to True otherwise: a
\* boolean parameter with a None default comes back as False, not None.
C4_RoundTripOfDefaults ==
  round_trip_of_defaults =>
    \A i \in DOMAIN sig :
      LET p == sig[i]
          t == value_type_of(p)
      IN (p.default # Empty /\ kept(i)) =>
           /\ dict_has(outcome.kw, p.name)
           /\ t = "bool" =>
                dict_get(outcome.kw, p.name) =
                  BoolVal(~(p.default = NoneVal \/ py_eq(p.default, BoolVal(FALSE))))
           /\ (t # "bool" /\ ~(p.default.t = "str" /\ t # "str")) =>
                dict_get(outcome.kw, p.name) = p.default

\* d: int = None, e=True and g: bool = None make the round trip: d comes
\* back as None, e as True, and g as False
C4_Witness ==
  /\ round_trip_of_defaults
  /\ Len(parser) = 1
  /\ outcome.kw = << <<name_d, NoneVal>>, <<name_e, BoolVal(TRUE)>>, <<name_g, BoolVal(FALSE)>> >>

(* -------------------------------- C5 ----------------------------------- *)
same_as_first_analysis ==
  /\ dict_callable_args_to_parser_args = first_analysis.p2k
  /\ dict_callable_args_to_args_for_add_augment = first_analysis.p2a

\* C5 as stated: once an analysis has succeeded the tables stay equal to
\* what it left, and every later call's analysis visits no parameter.
C5_Original ==
  first_analysis.done =>
    /\ same_as_first_analysis
    /\ outcome.repeat => outcome.visited = 0

\* C5 as amended: once an analysis has succeeded the tables stay equal, in
\* content and order, to what it left; in arglink the marker is then set and
\* every later call's analysis visits no parameter; in argkit, which keeps
\* no marker, every later call visits every parameter again and rebuilds
\* equal tables.
C5_Idempotence ==
  first_analysis.done =>
    /\ same_as_first_analysis
    /\ package = "arglink" =>
         /\ arglink_has_been_analyzed
         /\ outcome.repeat => outcome.visited = 0
    /\ (package = "argkit" /\ outcome.repeat) =>
         outcome.visited = IF Len(sig) > start_from THEN Len(sig) - start_from ELSE 0

\* arglink: a second call on an analysed callable with three flags
C5_Witness ==
  /\ package = "arglink"
  /\ outcome.repeat /\ outcome.op = "bind" /\ outcome.visited = 0
  /\ arglink_has_been_analyzed
  /\ Len(first_analysis.p2k) = 3
  /\ same_as_first_analysis

(* -------------------------------- C6 ----------------------------------- *)
\* the name is 'self', 'cls' or ends in '_'
default_ignored(nm) ==
  nm = name_self \/ nm = <<"c", "l", "s">> \/ (Len(nm) > 0 /\ nm[Len(nm)] = "_")

\* the name matches an ignore pattern or is in the ignore list
ignored(nm) ==
  \/ matches_ignore_pattern(nm)
  \/ in_ignore_list(nm)
  \/ (package = "arglink" /\ ignore_patterns = default_ignore_patterns /\ default_ignored(nm))

\* C6: a parameter whose name matches an ignore pattern (by default 'self',
\* 'cls' and names ending in '_') or is in the ignore list is in neither
\* table and not in the reverse-bound mapping, and no type error is raised
\* for it, whatever its annotation and default.
C6_IgnoreFilter ==
  \A i \in DOMAIN sig :
    ignored(sig[i].name) =>
      /\ ~dict_has(dict_callable_args_to_parser_args, sig[i].name)
      /\ ~dict_has(dict_callable_args_to_args_for_add_augment, sig[i].name)
      /\ ~dict_has(outcome.kw, sig[i].name)
      /\ ~(outcome.err \in {UnsupportedType, MissingTypeInformation}
             /\ outcome.param = sig[i].name)

\* arglink with the default patterns binds (self, t_: list, a_n: int): only
\* a_n is in the result
C6_Witness ==
  /\ package = "arglink" /\ ignore_patterns = default_ignore_patterns
  /\ [i \in DOMAIN sig |-> sig[i].name] = <<name_self, name_skip, name_a_n>>
  /\ outcome.op = "bind" /\ outcome.err = NoError
  /\ dict_keys(outcome.kw) = <<name_a_n>>
  /\ dict_keys(dict_callable_args_to_args_for_add_augment) = <<name_a_n>>

(* -------------------------------- C7 ----------------------------------- *)
\* every kept parameter before position i has been bound
all_kept_before_bound(i) == \A j \in 1..(i - 1) : kept(j) => bound(j)

\* the analysis fails, and it is parameter i that fails it, with error e,
\* if it is what the error names or no kept parameter before it is unbound
fails_at(i, e) ==
  /\ analysis_failed
  /\ outcome.param = sig[i].name => outcome.err = e
  /\ all_kept_before_bound(i) => (outcome.param = sig[i].name /\ outcome.err = e)

\* C7: a kept parameter with neither annotation nor default fails the
\* analysis with MissingTypeInformation when auto-skip is off; with
\* auto-skip on the analysis does not fail for it, it is in neither table,
\* and every other kept, resolvable parameter, before and after it, is
\* bound once the analysis completes.
C7_MissingTypeInformation ==
  \A i \in DOMAIN sig :
    (kept(i) /\ sig[i].kind = POSITIONAL_OR_KEYWORD
       /\ sig[i].annotation = "empty" /\ sig[i].default = Empty /\ called)
    => IF ~auto_skip
       THEN fails_at(i, MissingTypeInformation)
       ELSE /\ outcome.param # sig[i].name
            /\ ~dict_has(dict_callable_args_to_parser_args, sig[i].name)
            /\ ~dict_has(dict_callable_args_to_args_for_add_augment, sig[i].name)
            /\ ~analysis_failed =>
                 \A j \in DOMAIN sig : (j # i /\ kept(j) /\ resolvable(sig[j])) => bound(j)

\* argkit with auto-skip analyses (a_n: int, u, i_d=1): u is dropped,
\* a_n before it and i_d after it are bound
C7_Witness ==
  /\ package = "argkit" /\ auto_skip /\ ~skip_first /\ ignore_list = <<>>
  /\ [i \in DOMAIN sig |-> sig[i].name] = <<name_a_n, name_u, name_i_d>>
  /\ called /\ outcome.err = NoError
  /\ outcome.visited = 3
  /\ dict_keys(dict_callable_args_to_parser_args) = <<name_a_n, name_i_d>>
  /\ dict_keys(dict_callable_args_to_args_for_add_augment) = <<name_a_n, name_i_d>>

(* -------------------------------- C8 ----------------------------------- *)
\* the declared type, or without one the type of the default, is outside
\* int, float, bool, str
type_outside_closed_set(p) ==
  \/ p.annotation # "empty" /\ p.annotation \notin SupportedTypes
  \/ p.annotation = "empty" /\ p.default # Empty /\ type_of(p.default) \notin SupportedTypes

\* C8: a kept parameter whose declared type, or without one whose
\* default's type, is outside int, float, bool, str fails the analysis with
\* UnsupportedType when auto-skip is off and is left out of the tables
\* without failure when it is on; no flag of a table has a type outside the
\* closed set.
C8_UnsupportedType ==
  /\ \A i \in DOMAIN sig :
       (kept(i) /\ sig[i].kind = POSITIONAL_OR_KEYWORD
          /\ type_outside_closed_set(sig[i]) /\ called)
       => IF ~auto_skip
          THEN fails_at(i, UnsupportedType)
          ELSE /\ outcome.param # sig[i].name
               /\ ~dict_has(dict_callable_args_to_parser_args, sig[i].name)
               /\ ~dict_has(dict_callable_args_to_args_for_add_augment, sig[i].name)
  /\ \A i \in DOMAIN dict_callable_args_to_args_for_add_augment :
       LET kwargs == dict_callable_args_to_args_for_add_augment[i][2].kwargs
       IN \/ kwargs.type \in SupportedTypes
          \/ kwargs.action \in {"store_true", "store_false"}

(* -------------------------------- C9 ----------------------------------- *)
\* C9 as stated: a parameter that is not positional-or-keyword fails the
\* analysis of every call, with UnsupportedParameterKind when it is the
\* parameter the error names, whether or not it is filtered and whether or
\* not auto-skip is on.
C9_Original ==
  \A i \in DOMAIN sig :
    (sig[i].kind # POSITIONAL_OR_KEYWORD /\ called)
    => /\ analysis_failed
       /\ outcome.param = sig[i].name => outcome.err = UnsupportedParameterKind

\* every kept parameter before position i is bound or, under auto-skip,
\* dropped: none of them raises
none_raises_before(i) ==
  \A j \in 1..(i - 1) :
    kept(j) => (bound(j) \/ (auto_skip /\ sig[j].kind = POSITIONAL_OR_KEYWORD))

\* C9 as amended: a parameter that is not positional-or-keyword and that
\* the Filter keeps fails the analysis of every call, auto-skip on or off,
\* with UnsupportedParameterKind unless an earlier parameter raises first; a
\* parameter the Filter drops (ignore pattern, ignore list, skipped first
\* position) raises nothing, whatever its kind.
C9_KindFatalUnlessFiltered ==
  \A i \in DOMAIN sig :
    (sig[i].kind # POSITIONAL_OR_KEYWORD /\ called)
    => IF kept(i)
       THEN /\ analysis_failed
            /\ outcome.param = sig[i].name => outcome.err = UnsupportedParameterKind
            /\ none_raises_before(i) =>
                 (outcome.param = sig[i].name /\ outcome.err = UnsupportedParameterKind)
       ELSE outcome.param # sig[i].name

\* argkit with auto-skip analyses (u, *args): u is dropped and *args still
\* raises UnsupportedParameterKind
C9_Witness ==
  /\ package = "argkit" /\ auto_skip /\ ~skip_first /\ ignore_list = <<>>
  /\ [i \in DOMAIN sig |-> sig[i].name] = <<name_u, name_args>>
  /\ outcome.op = "analyze"
  /\ outcome.err = UnsupportedParameterKind /\ outcome.param = name_args
  /\ outcome.visited = 2

(* -------------------------------- C10 ---------------------------------- *)
\* C10: all-or-nothing analysis.  When the analysis of a call fails, the
\* tables hold no binding of the failed run (no analysis succeeds before
\* one fails, so they are as empty as the decorator left them) and the
\* marker is not set.
C10_AllOrNothing ==
  analysis_failed =>
    /\ dict_callable_args_to_parser_args = <<>>
    /\ dict_callable_args_to_args_for_add_augment = <<>>
    /\ ~arglink_has_been_analyzed

(* -------------------------------- C11 ---------------------------------- *)
\* C11: analysis failure precedes registration.  A call that registers a
\* callable and ends with an analysis error (UnsupportedParameterKind,
\* UnsupportedType or MissingTypeInformation) leaves the parser as it was:
\* no group and no flag has been added to it.
C11_AnalysisFailurePrecedesRegistration ==
  [][(outcome'.op = "register" /\ outcome'.err \in AnalysisErrors) => parser' = parser]_vars

(* -------------------------------- C12 ---------------------------------- *)
\* the parsed-value mapping of the last call lacks the parser key of a
\* retained binding
lacks_a_parser_key ==
  \E i \in DOMAIN dict_callable_args_to_parser_args :
    ~dict_has(outcome.args, dict_callable_args_to_parser_args[i][2])

\* C12: missing parsed value.  When the analysis succeeds and the
\* parsed-value mapping lacks the parser key of at least one retained
\* binding, the call fails with MissingParsedValue and returns no mapping
\* at all, whichever keys were present; both tables are then what the
\* analysis built, and the parsed-value mapping is only read.
C12_MissingParsedValue ==
  (outcome.op = "bind" /\ ~analysis_failed /\ lacks_a_parser_key)
  => /\ outcome.err = MissingParsedValue
     /\ outcome.kw = <<>>
     /\ first_analysis.done /\ same_as_first_analysis

\* (a_n: int, b: bool, d: int = None) is bound from a mapping that holds
\* a_n and b_store_true but not d: nothing is returned
C12_Witness ==
  /\ outcome.op = "bind" /\ outcome.err = MissingParsedValue
  /\ outcome.args = partial_args
  /\ dict_keys(dict_callable_args_to_parser_args) = <<name_a_n, name_b, name_d>>
  /\ dict_has(outcome.args, name_a_n) /\ dict_has(outcome.args, name_b \o str_store_true_key)
  /\ ~dict_has(outcome.args, name_d)
  /\ outcome.kw = <<>>

(* -------------------------------- C13 ---------------------------------- *)
\* the parameter at position i is kept by the Filter and its type resolves
retained(i) == kept(i) /\ resolvable(sig[i])

\* the flag name of a parameter: '--', the name in kebab case, and for a
\* boolean the suffix of its polarity
flag_name_of(p) ==
  LET kebab == str_dashes \o replace(p.name, "_", "-")
  IN IF value_type_of(p) # "bool" THEN kebab
     ELSE IF p.default \in {Empty, NoneVal} \/ py_eq(p.default, BoolVal(FALSE))
          THEN kebab \o str_store_true_flag
          ELSE kebab \o str_store_false_flag

\* the flag names of the retained parameters from position i on, in
\* declaration order
RECURSIVE retained_flag_names(_)
retained_flag_names(i) ==
  IF i > Len(sig) THEN <<>>
  ELSE (IF retained(i) THEN <<flag_name_of(sig[i])>> ELSE <<>>) \o retained_flag_names(i + 1)

\* C13: order and one-to-one registration.  A call that registers without
\* error adds exactly one group to the parser, after the groups it had, and
\* in that group exactly one flag per retained parameter, each under one
\* name, in the declaration order of the parameters; a filtered or skipped
\* parameter has no flag.
C13_OrderedOneToOne ==
  [][(outcome'.op = "register" /\ outcome'.err = NoError)
       => /\ Len(parser') = Len(parser) + 1
          /\ SubSeq(parser', 1, Len(parser)) = parser
          /\ flag_names_of_group(parser'[Len(parser')])
               = [i \in DOMAIN retained_flag_names(1) |-> <<retained_flag_names(1)[i]>>]]_vars

\* arglink registers (t_: list, a_n: int, e=True): one group holding
\* --a-n and then --e-store-false, and nothing for t_
C13_Witness ==
  /\ package = "arglink" /\ ignore_patterns = default_ignore_patterns
  /\ [i \in DOMAIN sig |-> sig[i].name] = <<name_skip, name_a_n, name_e>>
  /\ outcome.op = "register" /\ outcome.err = NoError
  /\ Len(parser) = 1
  /\ flag_names_of_group(parser[1]) =
       << << <<"-", "-", "a", "-", "n">> >>,
          << <<"-", "-", "e", "-", "s", "t", "o", "r", "e", "-", "f", "a", "l", "s", "e">> >> >>

(* -------------------------------- C14 ---------------------------------- *)
\* the value type a flag definition stands for
flag_type(v) ==
  IF v.kwargs.action \in {"store_true", "store_false"} THEN "bool" ELSE v.kwargs.type

\* C14: the declared type takes precedence over the default.  A kept
\* parameter with a declared type is bound, if it is bound, with the
\* declared type as its value type, whatever the runtime type of its
\* default; when the declared type is outside int, float, bool, str it is
\* never bound and, auto-skip off, fails the analysis with
\* UnsupportedType.  The runtime type of the default is the value type only
\* of a parameter without a declared type.
C14_DeclaredTypeFirst ==
  \A i \in DOMAIN sig :
    LET p == sig[i]
    IN (kept(i) /\ p.kind = POSITIONAL_OR_KEYWORD /\ called) =>
         /\ (p.annotation # "empty" /\ bound(i)) =>
              flag_type(dict_get(dict_callable_args_to_args_for_add_augment, p.name))
                = p.annotation
         /\ (p.annotation # "empty" /\ p.annotation \notin SupportedTypes) =>
              /\ ~bound(i)
              /\ ~auto_skip => fails_at(i, UnsupportedType)
         /\ (p.annotation = "empty" /\ bound(i)) =>
              flag_type(dict_get(dict_callable_args_to_args_for_add_augment, p.name))
                = type_of(p.default)

(* -------------------------------- C15 ---------------------------------- *)
\* a kept parameter with a None default and a declared type of the closed
\* set is bound once the analysis completes, and wherever it is bound its
\* flag has the declared type; a non-boolean one is not required and
\* carries the default None
null_default_with_declared_type(i) ==
  LET p == sig[i]
      v == dict_get(dict_callable_args_to_args_for_add_augment, p.name)
  IN /\ ~analysis_failed => bound(i)
     /\ bound(i) =>
          /\ flag_type(v) = p.annotation
          /\ p.annotation # "bool" =>
               (~v.kwargs.required /\ v.kwargs.default = NoneVal)

\* the parameter at position i is dropped by auto-skip: it is in neither
\* table and no error names it
dropped(i) ==
  /\ outcome.param # sig[i].name
  /\ ~dict_has(dict_callable_args_to_parser_args, sig[i].name)
  /\ ~dict_has(dict_callable_args_to_args_for_add_augment, sig[i].name)

\* C15 as stated: a kept parameter with a None default is bound with its
\* declared type when it has one of the closed set, and without a declared
\* type fails the analysis with MissingTypeInformation (auto-skip on: is
\* dropped).
C15_Original ==
  \A i \in DOMAIN sig :
    (kept(i) /\ sig[i].kind = POSITIONAL_OR_KEYWORD /\ sig[i].default = NoneVal /\ called) =>
      /\ sig[i].annotation \in SupportedTypes => null_default_with_declared_type(i)
      /\ sig[i].annotation = "empty" =>
           IF auto_skip THEN dropped(i) ELSE fails_at(i, MissingTypeInformation)

\* C15 as amended: a kept parameter with a None default is bound with its
\* declared type when it has one of the closed set; without a declared type
\* it fails the analysis, in argkit with MissingTypeInformation (auto-skip
\* on: it is dropped) and in arglink, which takes NoneType as the type of
\* the default, with UnsupportedType.
C15_NullDefault ==
  \A i \in DOMAIN sig :
    (kept(i) /\ sig[i].kind = POSITIONAL_OR_KEYWORD /\ sig[i].default = NoneVal /\ called) =>
      /\ sig[i].annotation \in SupportedTypes => null_default_with_declared_type(i)
      /\ sig[i].annotation = "empty" =>
           IF package = "arglink" THEN fails_at(i, UnsupportedType)
           ELSE IF auto_skip THEN dropped(i)
           ELSE fails_at(i, MissingTypeInformation)

\* arglink analyses (d: int = None, g: bool = None, n=None): d is bound as
\* a non-required int flag with default None, g as a store-true flag, and n
\* fails the analysis with UnsupportedType
C15_Witness ==
  /\ package = "arglink" /\ ignore_patterns = default_ignore_patterns
  /\ [i \in DOMAIN sig |-> sig[i].name] = <<name_d, name_g, name_n>>
  /\ outcome.op = "analyze"
  /\ outcome.err = UnsupportedType /\ outcome.param = name_n
  /\ dict_keys(dict_callable_args_to_parser_args) = <<name_d, name_g>>
  /\ dict_get(dict_callable_args_to_args_for_add_augment, name_d).kwargs.type = "int"
  /\ dict_get(dict_callable_args_to_args_for_add_augment, name_d).kwargs.default = NoneVal
  /\ ~dict_get(dict_callable_args_to_args_for_add_augment, name_d).kwargs.required
  /\ dict_get(dict_callable_args_to_parser_args, name_g) = name_g \o str_store_true_key

(* -------------------------------- C16 ---------------------------------- *)
\* C16: within one successfully analysed callable no two retained
\* parameters have the same parser key or the same flag name (so that a
\* reverse binding cannot give two parameters the value of one key).
C16_InjectiveKeys ==
  (called /\ ~analysis_failed) =>
    \A i, j \in DOMAIN dict_callable_args_to_parser_args :
      i # j =>
        /\ dict_callable_args_to_parser_args[i][2] # dict_callable_args_to_parser_args[j][2]
        /\ dict_callable_args_to_args_for_add_augment[i][2].args
             # dict_callable_args_to_args_for_add_augment[j][2].args

====
